---- MODULE Spec2Model ----
(***************************************************************************)
(* A model of the effect-cell crate (src/src/lib.rs, src/src/main.rs).     *)
(*                                                                         *)
(* One cell is built and then driven by its owner, one method call at a    *)
(* time.  The cell is an EffectCell, an OrderedEffectCell (both lib.rs) or *)
(* the single-effect cell that main.rs constructs with `new(value, eff)`.  *)
(* T is an unsigned integer of Bits bits.  An effect is a closure that     *)
(* bumps its own counter and records the value it was handed; the k-th     *)
(* closure bound to a cell carries the index k.                            *)
(*                                                                         *)
(* Spec:      the owner calls any method but a comparison; closures return.*)
(* SpecCmp:   the owner binds, writes and compares the cell.               *)
(* SpecFault: the owner may bind closures that panic when they are called. *)
(***************************************************************************)
EXTENDS Integers, Sequences, FiniteSets, TLC

\* ---------------------------------------------------------------- bounds
Bits == 2            \* width of T
MaxEffects == 2      \* closures bound to one cell
MaxOps == 3          \* method calls made on one cell
MaxLambdaArg == 1    \* the closures passed in are |data| *data op= k, k <= MaxLambdaArg
MaxInit == 1         \* a cell is built with new(v), v <= MaxInit

Modulus == 2 ^ Bits
Val == 0 .. (Modulus - 1)
EffectId == 1 .. MaxEffects
Panic == 0 - 1       \* the outcome of an operator of T that panics
NoValue == 0 - 2     \* a method that returns ()

Kinds == {"EffectCell", "OrderedEffectCell", "SingleEffectCell"}
CompoundOps == {"+=", "-=", "*=", "/=", "%=", "<<=", ">>=", "&=", "|=", "^="}

VARIABLES
    kind,             \* which struct the cell is
    overflow_checks,  \* the build: TRUE panics on integer overflow, FALSE wraps
    status,           \* "live", "consumed", "unwrapped", "dropped", "panicked"
    data,             \* field data: T
    effects,          \* EffectCell.effects (the one effect of the single cell)
    prior_effects,    \* OrderedEffectCell.prior_effects
    post_effects,     \* OrderedEffectCell.post_effects
    calls,            \* calls[f]: the counter captured by closure f
    trace,            \* what the last method call did, in order
    last,             \* the last method call and its arguments
    pre,              \* data, calls and registries as the last call found them
    passes,           \* passes[f]: completed effect passes over f's registry since f was bound
    returned,         \* the value the last method call returned, or NoValue
    shls,             \* `<<=` applications so far, or NoValue once another method ran effects
    panicky,          \* the closures that panic when they are called
    compared,         \* the right-hand side of the last comparison
    verdict,          \* what the last comparison returned, "" if the last call was none
    nops              \* method calls made so far

vars == <<kind, overflow_checks, status, data, effects, prior_effects,
          post_effects, calls, trace, last, pre, passes, returned, shls,
          panicky, compared, verdict, nops>>

\* ------------------------------------------------------ operators of T
RECURSIVE BitAnd(_, _, _)
BitAnd(a, b, n) ==
    IF n = 0 THEN 0
    ELSE (IF a % 2 = 1 /\ b % 2 = 1 THEN 1 ELSE 0) + 2 * BitAnd(a \div 2, b \div 2, n - 1)

RECURSIVE BitOr(_, _, _)
BitOr(a, b, n) ==
    IF n = 0 THEN 0
    ELSE (IF a % 2 = 1 \/ b % 2 = 1 THEN 1 ELSE 0) + 2 * BitOr(a \div 2, b \div 2, n - 1)

RECURSIVE BitXor(_, _, _)
BitXor(a, b, n) ==
    IF n = 0 THEN 0
    ELSE (IF a % 2 # b % 2 THEN 1 ELSE 0) + 2 * BitXor(a \div 2, b \div 2, n - 1)

\* An arithmetic result r of T: in range, or overflow (a panic when the build
\* checks overflow, the wrapped value when it does not).
Arith(r) ==
    IF r \in Val THEN r
    ELSE IF overflow_checks THEN Panic
    ELSE r % Modulus

\* `a op b` for the compound operator op of an unsigned integer T.
BinOp(op, a, b) ==
    CASE op = "+=" -> Arith(a + b)
      [] op = "-=" -> Arith(a - b)
      [] op = "*=" -> Arith(a * b)
      [] op = "/=" -> IF b = 0 THEN Panic ELSE a \div b
      [] op = "%=" -> IF b = 0 THEN Panic ELSE a % b
      [] op = "<<=" -> IF b >= Bits
                       THEN (IF overflow_checks THEN Panic
                             ELSE (a * 2 ^ (b % Bits)) % Modulus)
                       ELSE (a * 2 ^ b) % Modulus
      [] op = ">>=" -> IF b >= Bits
                       THEN (IF overflow_checks THEN Panic
                             ELSE a \div 2 ^ (b % Bits))
                       ELSE a \div 2 ^ b
      [] op = "&=" -> BitAnd(a, b, Bits)
      [] op = "|=" -> BitOr(a, b, Bits)
      [] op = "^=" -> BitXor(a, b, Bits)

\* ------------------------------------------- the steps a method is made of
\* A method body is a composition of steps over a record
\*   [data, calls, trace, fault]
\* fault is set by a panic; the steps after a panic do not run (unwinding).

Enter == [data |-> data, calls |-> calls, trace |-> <<>>, fault |-> FALSE]

\* faulty variant: the closure is handed &mut T and resets the value
Invoke_mutates(s, f) ==
    IF s.fault THEN s
    ELSE [s EXCEPT !.calls[f] = @ + 1, !.data = 0,
                   !.trace = Append(@, [ev |-> "effect", f |-> f, val |-> s.data])]

\* faulty variant: the method catches the panic of a closure and goes on
Invoke_swallows(s, f) ==
    IF s.fault THEN s
    ELSE IF f \in panicky
    THEN [s EXCEPT !.trace = Append(@, [ev |-> "panic", f |-> f, val |-> s.data])]
    ELSE [s EXCEPT !.calls[f] = @ + 1,
                   !.trace = Append(@, [ev |-> "effect", f |-> f, val |-> s.data])]

\* f(&self.data): closure f is handed the value now stored; a closure that
\* panics unwinds out of the method.
Invoke(s, f) ==
    IF s.fault THEN s
    ELSE IF f \in panicky
    THEN [s EXCEPT !.fault = TRUE,
                   !.trace = Append(@, [ev |-> "panic", f |-> f, val |-> s.data])]
    ELSE [s EXCEPT !.calls[f] = @ + 1,
                   !.trace = Append(@, [ev |-> "effect", f |-> f, val |-> s.data])]

\* for f in &mut registry { f(&self.data); }
RECURSIVE RunEffects(_, _)
RunEffects(s, registry) ==
    IF registry = <<>> THEN s
    ELSE RunEffects(Invoke(s, Head(registry)), Tail(registry))

\* self.data = new;
Store(s, new) ==
    IF s.fault THEN s
    ELSE [s EXCEPT !.data = new,
                   !.trace = Append(@, [ev |-> "store", f |-> 0, val |-> new])]

\* self.data op= other;  (also the body of a closure |data| *data op= other
\* run on &mut self.data)
OpAssign(s, op, other) ==
    IF s.fault THEN s
    ELSE LET r == BinOp(op, s.data, other)
         IN IF r = Panic THEN [s EXCEPT !.fault = TRUE] ELSE Store(s, r)

\* lambda(&mut self.data) with lambda: FnMut(&mut T), the closure
\* |data| *data op= other
MutLambda(s, lambda) == OpAssign(s, lambda.fop, lambda.arg)

\* lambda(&mut self.data) with lambda: FnMut(&T): the closure gets a shared
\* reference and can only read the value.
RefLambda(s, lambda) == s

\* The closures the owner passes to update_lambda and set_lambda: an addition
\* (which may overflow), a subtraction (which may underflow) and a division
\* (which panics on 0).
LambdaOps == {"+=", "-=", "/="}
Lambdas == [fop : LambdaOps, arg : 0 .. MaxLambdaArg]

Range(seq) == {seq[i] : i \in DOMAIN seq}

\* ------------------------------------------------------------ EffectCell
\* faulty variant: the new effect takes the place of the ones bound before
EffectCell_bind_replace(registry, effect) == <<effect>>

\* faulty variant: the new effect goes to the front of the registry
EffectCell_bind_front(registry, effect) == <<effect>> \o registry

\* self.effects.push(Box::new(effect));
EffectCell_bind(registry, effect) == Append(registry, effect)

EffectCell_call(s) == RunEffects(s, effects)

EffectCell_consume(s) == EffectCell_call(s)

\* faulty variant: the effects run before the value is replaced
EffectCell_update_callFirst(s, new) == Store(EffectCell_call(s), new)

EffectCell_update(s, new) == EffectCell_call(Store(s, new))

EffectCell_update_lambda(s, lambda) == EffectCell_call(MutLambda(s, lambda))

\* faulty variant: the silent write runs the effects
EffectCell_set_notifies(s, new) == EffectCell_call(Store(s, new))

EffectCell_set(s, new) == Store(s, new)

EffectCell_set_lambda(s, lambda) == RefLambda(s, lambda)

\* faulty variant: the value is taken out with mem::take and its default returned
EffectCell_into_inner_default(s) == 0

\* self.data, moved out of the cell
EffectCell_into_inner(s) == s.data

\* T's partial_cmp, Some(ordering) for an integer T
Cmp(a, b) == IF a < b THEN "Less" ELSE IF a = b THEN "Equal" ELSE "Greater"

\* faulty variant: cells are equal when value and number of effects are
EffectCell_eq_withEffects(self, cell) ==
    self.data = cell.data /\ Len(self.effects) = Len(cell.effects)

\* PartialEq for EffectCell<T>: self.data == other.data
EffectCell_eq(self, cell) == self.data = cell.data

\* PartialEq<T> for EffectCell<T>: &self.data == other
EffectCell_eq_value(self, v) == self.data = v

\* PartialOrd for EffectCell<T>: self.data.partial_cmp(&other.data)
EffectCell_partial_cmp(self, cell) == Cmp(self.data, cell.data)

\* PartialOrd<T> for EffectCell<T>: self.data.partial_cmp(other)
EffectCell_partial_cmp_value(self, v) == Cmp(self.data, v)

\* faulty variant: a Drop impl that runs the effects
EffectCell_drop_runs(s) == EffectCell_call(s)

\* the struct has no Drop impl: its fields are dropped, no closure is called
EffectCell_drop(s) == s

\* faulty variant: the effects run before the operator is applied
impl_pass_op_callFirst(s, op, other) == OpAssign(EffectCell_call(s), op, other)

\* fn $fn_name(&mut self, other: T) { self.data $op other; self.call() }
impl_pass_op(s, op, other) == EffectCell_call(OpAssign(s, op, other))

\* ----------------------------------------------------- OrderedEffectCell
OrderedEffectCell_bind_prior(prior, ord, effect) ==
    IF ord = "Prior" THEN Append(prior, effect) ELSE prior

OrderedEffectCell_bind_post(post, ord, effect) ==
    IF ord = "Post" THEN Append(post, effect) ELSE post

\* faulty variant: call runs both registries whatever the order given
OrderedEffectCell_call_both(s, ord) ==
    RunEffects(RunEffects(s, prior_effects), post_effects)

OrderedEffectCell_call(s, ord) ==
    CASE ord = "Prior" -> RunEffects(s, prior_effects)
      [] ord = "Post" -> RunEffects(s, post_effects)

\* faulty variant: Post effects run before Prior effects
OrderedEffectCell_consume_postFirst(s) ==
    OrderedEffectCell_call(OrderedEffectCell_call(s, "Post"), "Prior")

OrderedEffectCell_consume(s) ==
    OrderedEffectCell_call(OrderedEffectCell_call(s, "Prior"), "Post")

\* faulty variant: the value is replaced before the Prior effects run
OrderedEffectCell_update_storeFirst(s, new) ==
    OrderedEffectCell_call(OrderedEffectCell_call(Store(s, new), "Prior"), "Post")

OrderedEffectCell_update(s, new) ==
    OrderedEffectCell_call(Store(OrderedEffectCell_call(s, "Prior"), new), "Post")

\* faulty variant: the closure runs before the Prior effects
OrderedEffectCell_update_lambda_lambdaFirst(s, lambda) ==
    OrderedEffectCell_call(OrderedEffectCell_call(MutLambda(s, lambda), "Prior"), "Post")

OrderedEffectCell_update_lambda(s, lambda) ==
    OrderedEffectCell_call(MutLambda(OrderedEffectCell_call(s, "Prior"), lambda), "Post")

\* faulty variant: the write is lost
OrderedEffectCell_set_lost(s, new) == s

OrderedEffectCell_set(s, new) == Store(s, new)

OrderedEffectCell_set_lambda(s, lambda) == RefLambda(s, lambda)

OrderedEffectCell_into_inner(s) == s.data

OrderedEffectCell_eq(self, cell) == self.data = cell.data

OrderedEffectCell_eq_value(self, v) == self.data = v

OrderedEffectCell_partial_cmp(self, cell) == Cmp(self.data, cell.data)

OrderedEffectCell_partial_cmp_value(self, v) == Cmp(self.data, v)

OrderedEffectCell_drop(s) == s

\* faulty variant: the body of impl_pass_op with both registries called after
\* the operator
impl_pass_op_ord_opFirst(s, op, other) ==
    OrderedEffectCell_call(OrderedEffectCell_call(OpAssign(s, op, other), "Prior"), "Post")

impl_pass_op_ord(s, op, other) ==
    OrderedEffectCell_call(OpAssign(OrderedEffectCell_call(s, "Prior"), op, other), "Post")

\* ------------------------------------------------------ single-effect cell
\* The cell main.rs builds with new(value, effect) and drives with <<=.
SingleEffectCell_call(s) == Invoke(s, Head(effects))

\* faulty variant: the value is replaced before the effect runs
SingleEffectCell_shl_assign_newFirst(s, rhs) == Invoke(Store(s, rhs), Head(effects))

\* faulty variant: the value is replaced and the effect does not run
SingleEffectCell_shl_assign_silent(s, rhs) == Store(s, rhs)

\* cell <<= rhs: the effect is handed the value about to be replaced
SingleEffectCell_shl_assign(s, rhs) == Store(Invoke(s, Head(effects)), rhs)

SingleEffectCell_update(s, new) == SingleEffectCell_shl_assign(s, new)

SingleEffectCell_set(s, new) == Store(s, new)

\* &cell[()]
SingleEffectCell_index(s) == s.data

\* &mut cell[()]: the effect runs, then the caller holds &mut T and may write
SingleEffectCell_index_mut(s, written) ==
    IF written = NoValue THEN Invoke(s, Head(effects))
    ELSE Store(Invoke(s, Head(effects)), written)

SingleEffectCell_consume(s) == Invoke(s, Head(effects))

SingleEffectCell_drop(s) == s

\* ------------------------------------------------------------ the program
NoOp(name) == [op |-> name, fop |-> "", arg |-> 0, ord |-> ""]

\* set: the value a set(v) wrote, when the call before was that set
Snapshot ==
    [data |-> data, calls |-> calls, effects |-> effects,
     prior_effects |-> prior_effects, post_effects |-> post_effects,
     set |-> IF last.op = "set" THEN last.arg ELSE NoValue]

Bump(p, fs) == [f \in EffectId |-> IF f \in fs THEN p[f] + 1 ELSE p[f]]

\* The methods that run no effect.
SilentOps == {"new", "bind", "set", "set_lambda", "into_inner", "index", "drop",
              "eq", "eq_value", "partial_cmp", "partial_cmp_value"}

\* No comparison was made.
NoOther == [cell |-> FALSE, data |-> 0, effects |-> <<>>]

\* The owner may make another call on the cell.
Callable(k) == kind = k /\ status = "live" /\ nops < MaxOps

\* The effects of registry, when the pass body s made over it ran to its end.
Completed(s, registry) ==
    IF \A f \in Range(registry) :
           \E i \in DOMAIN s.trace : s.trace[i].ev = "effect" /\ s.trace[i].f = f
    THEN Range(registry)
    ELSE {}

\* A method call that ran body s and leaves the cell in status st.
Returns(s, st, rec, ret) ==
    /\ data' = s.data
    /\ calls' = s.calls
    /\ trace' = s.trace
    /\ status' = IF s.fault THEN "panicked" ELSE st
    /\ returned' = IF s.fault THEN NoValue ELSE ret
    /\ last' = rec
    /\ pre' = Snapshot
    /\ nops' = nops + 1
    /\ shls' = IF rec.op \in SilentOps THEN shls
               ELSE IF rec.op = "op_assign" /\ rec.fop = "<<=" /\ shls # NoValue THEN shls + 1
               ELSE NoValue
    /\ UNCHANGED <<kind, overflow_checks>>

\* A method call that is no comparison and binds no panicking closure.
Return(s, st, rec, ret) ==
    /\ Returns(s, st, rec, ret)
    /\ UNCHANGED panicky
    /\ compared' = NoOther
    /\ verdict' = ""

Registries == <<effects, prior_effects, post_effects>>

Init ==
    /\ kind \in Kinds
    /\ overflow_checks \in BOOLEAN
    /\ status = "live"
    /\ data \in 0 .. MaxInit
    /\ effects = IF kind = "SingleEffectCell" THEN <<1>> ELSE <<>>
    /\ prior_effects = <<>>
    /\ post_effects = <<>>
    /\ calls = [f \in EffectId |-> 0]
    /\ passes = [f \in EffectId |-> 0]
    /\ trace = <<>>
    /\ last = [NoOp("new") EXCEPT !.arg = data]
    /\ pre = Snapshot
    /\ returned = NoValue
    /\ shls = 0
    /\ panicky = {}
    /\ compared = NoOther
    /\ verdict = ""
    /\ nops = 0

\* ---- EffectCell
Act_EffectCell_bind ==
    /\ Callable("EffectCell")
    /\ Len(effects) < MaxEffects
    /\ effects' = EffectCell_bind(effects, Len(effects) + 1)
    /\ Return(Enter, "live", [NoOp("bind") EXCEPT !.arg = Len(effects) + 1], NoValue)
    /\ UNCHANGED <<prior_effects, post_effects, passes>>

Act_EffectCell_call ==
    /\ Callable("EffectCell")
    /\ Return(EffectCell_call(Enter), "live", NoOp("call"), NoValue)
    /\ passes' = Bump(passes, Completed(EffectCell_call(Enter), effects))
    /\ UNCHANGED Registries

Act_EffectCell_consume ==
    /\ Callable("EffectCell")
    /\ Return(EffectCell_consume(Enter), "consumed", NoOp("consume"), NoValue)
    /\ passes' = Bump(passes, Completed(EffectCell_consume(Enter), effects))
    /\ UNCHANGED Registries

Act_EffectCell_update ==
    \E new \in Val :
        /\ Callable("EffectCell")
        /\ Return(EffectCell_update(Enter, new), "live",
                  [NoOp("update") EXCEPT !.arg = new], NoValue)
        /\ passes' = Bump(passes, Completed(EffectCell_update(Enter, new), effects))
        /\ UNCHANGED Registries

Act_EffectCell_update_lambda ==
    \E lambda \in Lambdas :
        LET s == EffectCell_update_lambda(Enter, lambda) IN
        /\ Callable("EffectCell")
        /\ Return(s, "live",
                  [NoOp("update_lambda") EXCEPT !.fop = lambda.fop, !.arg = lambda.arg],
                  NoValue)
        /\ passes' = IF s.fault THEN passes ELSE Bump(passes, Range(effects))
        /\ UNCHANGED Registries

Act_EffectCell_set ==
    \E new \in Val :
        /\ Callable("EffectCell")
        /\ Return(EffectCell_set(Enter, new), "live",
                  [NoOp("set") EXCEPT !.arg = new], NoValue)
        /\ UNCHANGED <<effects, prior_effects, post_effects, passes>>

Act_EffectCell_set_lambda ==
    \E lambda \in Lambdas :
        /\ Callable("EffectCell")
        /\ Return(EffectCell_set_lambda(Enter, lambda), "live",
                  [NoOp("set_lambda") EXCEPT !.fop = lambda.fop, !.arg = lambda.arg],
                  NoValue)
        /\ UNCHANGED <<effects, prior_effects, post_effects, passes>>

Act_EffectCell_into_inner ==
    /\ Callable("EffectCell")
    /\ Return(Enter, "unwrapped", NoOp("into_inner"), EffectCell_into_inner(Enter))
    /\ UNCHANGED <<effects, prior_effects, post_effects, passes>>

Act_EffectCell_drop ==
    /\ Callable("EffectCell")
    /\ Return(EffectCell_drop(Enter), "dropped", NoOp("drop"), NoValue)
    /\ UNCHANGED <<effects, prior_effects, post_effects, passes>>

Act_EffectCell_op_assign ==
    \E op \in CompoundOps, other \in Val :
        LET s == impl_pass_op(Enter, op, other) IN
        /\ Callable("EffectCell")
        /\ Return(s, "live",
                  [NoOp("op_assign") EXCEPT !.fop = op, !.arg = other], NoValue)
        /\ passes' = IF s.fault THEN passes ELSE Bump(passes, Range(effects))
        /\ UNCHANGED Registries

\* ---- OrderedEffectCell
Orders == {"Prior", "Post"}

NextEffect == Len(prior_effects) + Len(post_effects) + 1

Act_OrderedEffectCell_bind ==
    \E ord \in Orders :
        /\ Callable("OrderedEffectCell")
        /\ NextEffect <= MaxEffects
        /\ prior_effects' = OrderedEffectCell_bind_prior(prior_effects, ord, NextEffect)
        /\ post_effects' = OrderedEffectCell_bind_post(post_effects, ord, NextEffect)
        /\ Return(Enter, "live",
                  [NoOp("bind") EXCEPT !.arg = NextEffect, !.ord = ord], NoValue)
        /\ UNCHANGED <<effects, passes>>

Act_OrderedEffectCell_call ==
    \E ord \in Orders :
        /\ Callable("OrderedEffectCell")
        /\ Return(OrderedEffectCell_call(Enter, ord), "live",
                  [NoOp("call") EXCEPT !.ord = ord], NoValue)
        /\ passes' = Bump(passes, Completed(OrderedEffectCell_call(Enter, ord),
                                             IF ord = "Prior" THEN prior_effects
                                             ELSE post_effects))
        /\ UNCHANGED Registries

Act_OrderedEffectCell_consume ==
    /\ Callable("OrderedEffectCell")
    /\ Return(OrderedEffectCell_consume(Enter), "consumed", NoOp("consume"), NoValue)
    /\ passes' = Bump(passes, Completed(OrderedEffectCell_consume(Enter), prior_effects)
                               \cup Completed(OrderedEffectCell_consume(Enter), post_effects))
    /\ UNCHANGED Registries

Act_OrderedEffectCell_update ==
    \E new \in Val :
        /\ Callable("OrderedEffectCell")
        /\ Return(OrderedEffectCell_update(Enter, new), "live",
                  [NoOp("update") EXCEPT !.arg = new], NoValue)
        /\ passes' = Bump(passes, Completed(OrderedEffectCell_update(Enter, new), prior_effects)
                                   \cup Completed(OrderedEffectCell_update(Enter, new), post_effects))
        /\ UNCHANGED Registries

Act_OrderedEffectCell_update_lambda ==
    \E lambda \in Lambdas :
        LET s == OrderedEffectCell_update_lambda(Enter, lambda) IN
        /\ Callable("OrderedEffectCell")
        /\ Return(s, "live",
                  [NoOp("update_lambda") EXCEPT !.fop = lambda.fop, !.arg = lambda.arg],
                  NoValue)
        /\ passes' = Bump(passes, IF s.fault THEN Range(prior_effects)
                                  ELSE Range(prior_effects) \cup Range(post_effects))
        /\ UNCHANGED Registries

Act_OrderedEffectCell_set ==
    \E new \in Val :
        /\ Callable("OrderedEffectCell")
        /\ Return(OrderedEffectCell_set(Enter, new), "live",
                  [NoOp("set") EXCEPT !.arg = new], NoValue)
        /\ UNCHANGED <<effects, prior_effects, post_effects, passes>>

Act_OrderedEffectCell_set_lambda ==
    \E lambda \in Lambdas :
        /\ Callable("OrderedEffectCell")
        /\ Return(OrderedEffectCell_set_lambda(Enter, lambda), "live",
                  [NoOp("set_lambda") EXCEPT !.fop = lambda.fop, !.arg = lambda.arg],
                  NoValue)
        /\ UNCHANGED <<effects, prior_effects, post_effects, passes>>

Act_OrderedEffectCell_into_inner ==
    /\ Callable("OrderedEffectCell")
    /\ Return(Enter, "unwrapped", NoOp("into_inner"), OrderedEffectCell_into_inner(Enter))
    /\ UNCHANGED <<effects, prior_effects, post_effects, passes>>

Act_OrderedEffectCell_drop ==
    /\ Callable("OrderedEffectCell")
    /\ Return(OrderedEffectCell_drop(Enter), "dropped", NoOp("drop"), NoValue)
    /\ UNCHANGED <<effects, prior_effects, post_effects, passes>>

Act_OrderedEffectCell_op_assign ==
    \E op \in CompoundOps, other \in Val :
        LET s == impl_pass_op_ord(Enter, op, other) IN
        /\ Callable("OrderedEffectCell")
        /\ Return(s, "live",
                  [NoOp("op_assign") EXCEPT !.fop = op, !.arg = other], NoValue)
        /\ passes' = Bump(passes, IF s.fault THEN Range(prior_effects)
                                  ELSE Range(prior_effects) \cup Range(post_effects))
        /\ UNCHANGED Registries

\* ---- single-effect cell
Act_SingleEffectCell_call ==
    /\ Callable("SingleEffectCell")
    /\ Return(SingleEffectCell_call(Enter), "live", NoOp("call"), NoValue)
    /\ passes' = Bump(passes, Range(effects))
    /\ UNCHANGED Registries

Act_SingleEffectCell_shl_assign ==
    \E rhs \in Val :
        /\ Callable("SingleEffectCell")
        /\ Return(SingleEffectCell_shl_assign(Enter, rhs), "live",
                  [NoOp("op_assign") EXCEPT !.fop = "<<=", !.arg = rhs], NoValue)
        /\ passes' = Bump(passes, Range(effects))
        /\ UNCHANGED Registries

Act_SingleEffectCell_update ==
    \E new \in Val :
        /\ Callable("SingleEffectCell")
        /\ Return(SingleEffectCell_update(Enter, new), "live",
                  [NoOp("update") EXCEPT !.arg = new], NoValue)
        /\ passes' = Bump(passes, Range(effects))
        /\ UNCHANGED Registries

Act_SingleEffectCell_set ==
    \E new \in Val :
        /\ Callable("SingleEffectCell")
        /\ Return(SingleEffectCell_set(Enter, new), "live",
                  [NoOp("set") EXCEPT !.arg = new], NoValue)
        /\ UNCHANGED <<effects, prior_effects, post_effects, passes>>

Act_SingleEffectCell_index ==
    /\ Callable("SingleEffectCell")
    /\ Return(Enter, "live", NoOp("index"), SingleEffectCell_index(Enter))
    /\ UNCHANGED <<effects, prior_effects, post_effects, passes>>

Act_SingleEffectCell_index_mut ==
    \E written \in Val \cup {NoValue} :
        /\ Callable("SingleEffectCell")
        /\ Return(SingleEffectCell_index_mut(Enter, written), "live",
                  [NoOp("index_mut") EXCEPT !.arg = written], NoValue)
        /\ passes' = Bump(passes, Range(effects))
        /\ UNCHANGED Registries

Act_SingleEffectCell_consume ==
    /\ Callable("SingleEffectCell")
    /\ Return(SingleEffectCell_consume(Enter), "consumed", NoOp("consume"), NoValue)
    /\ passes' = Bump(passes, Range(effects))
    /\ UNCHANGED Registries

Act_SingleEffectCell_drop ==
    /\ Callable("SingleEffectCell")
    /\ Return(SingleEffectCell_drop(Enter), "dropped", NoOp("drop"), NoValue)
    /\ UNCHANGED <<effects, prior_effects, post_effects, passes>>

Next ==
    \/ Act_EffectCell_bind
    \/ Act_EffectCell_call
    \/ Act_EffectCell_consume
    \/ Act_EffectCell_update
    \/ Act_EffectCell_update_lambda
    \/ Act_EffectCell_set
    \/ Act_EffectCell_set_lambda
    \/ Act_EffectCell_into_inner
    \/ Act_EffectCell_drop
    \/ Act_EffectCell_op_assign
    \/ Act_OrderedEffectCell_bind
    \/ Act_OrderedEffectCell_call
    \/ Act_OrderedEffectCell_consume
    \/ Act_OrderedEffectCell_update
    \/ Act_OrderedEffectCell_update_lambda
    \/ Act_OrderedEffectCell_set
    \/ Act_OrderedEffectCell_set_lambda
    \/ Act_OrderedEffectCell_into_inner
    \/ Act_OrderedEffectCell_drop
    \/ Act_OrderedEffectCell_op_assign
    \/ Act_SingleEffectCell_call
    \/ Act_SingleEffectCell_shl_assign
    \/ Act_SingleEffectCell_update
    \/ Act_SingleEffectCell_set
    \/ Act_SingleEffectCell_index
    \/ Act_SingleEffectCell_index_mut
    \/ Act_SingleEffectCell_consume
    \/ Act_SingleEffectCell_drop

Spec == Init /\ [][Next]_vars

\* ---- comparisons
\* The cell, and the cells and values it is compared with.
Self == [cell |-> TRUE, data |-> data,
         effects |-> effects \o prior_effects \o post_effects]
OtherCells == [cell : {TRUE}, data : Val, effects : {<<>>, <<1>>}]
Bare(v) == [cell |-> FALSE, data |-> v, effects |-> <<>>]
Truth(b) == IF b THEN "true" ELSE "false"

\* A comparison with rhs that returned v: &self, nothing is written.
Compares(k, name, rhs, v) ==
    /\ Callable(k)
    /\ Returns(Enter, "live", NoOp(name), NoValue)
    /\ compared' = rhs
    /\ verdict' = v
    /\ UNCHANGED <<effects, prior_effects, post_effects, passes, panicky>>

Act_EffectCell_eq ==
    \E cell \in OtherCells :
        Compares("EffectCell", "eq", cell, Truth(EffectCell_eq(Self, cell)))

Act_EffectCell_eq_value ==
    \E v \in Val :
        Compares("EffectCell", "eq_value", Bare(v), Truth(EffectCell_eq_value(Self, v)))

Act_EffectCell_partial_cmp ==
    \E cell \in OtherCells :
        Compares("EffectCell", "partial_cmp", cell, EffectCell_partial_cmp(Self, cell))

Act_EffectCell_partial_cmp_value ==
    \E v \in Val :
        Compares("EffectCell", "partial_cmp_value", Bare(v),
                 EffectCell_partial_cmp_value(Self, v))

Act_OrderedEffectCell_eq ==
    \E cell \in OtherCells :
        Compares("OrderedEffectCell", "eq", cell, Truth(OrderedEffectCell_eq(Self, cell)))

Act_OrderedEffectCell_eq_value ==
    \E v \in Val :
        Compares("OrderedEffectCell", "eq_value", Bare(v),
                 Truth(OrderedEffectCell_eq_value(Self, v)))

Act_OrderedEffectCell_partial_cmp ==
    \E cell \in OtherCells :
        Compares("OrderedEffectCell", "partial_cmp", cell,
                 OrderedEffectCell_partial_cmp(Self, cell))

Act_OrderedEffectCell_partial_cmp_value ==
    \E v \in Val :
        Compares("OrderedEffectCell", "partial_cmp_value", Bare(v),
                 OrderedEffectCell_partial_cmp_value(Self, v))

InitCmp == Init /\ kind \in {"EffectCell", "OrderedEffectCell"}

NextCmp ==
    \/ Act_EffectCell_bind
    \/ Act_EffectCell_set
    \/ Act_EffectCell_update
    \/ Act_EffectCell_eq
    \/ Act_EffectCell_eq_value
    \/ Act_EffectCell_partial_cmp
    \/ Act_EffectCell_partial_cmp_value
    \/ Act_OrderedEffectCell_bind
    \/ Act_OrderedEffectCell_set
    \/ Act_OrderedEffectCell_update
    \/ Act_OrderedEffectCell_eq
    \/ Act_OrderedEffectCell_eq_value
    \/ Act_OrderedEffectCell_partial_cmp
    \/ Act_OrderedEffectCell_partial_cmp_value

SpecCmp == InitCmp /\ [][NextCmp]_vars

\* ---- closures that panic
\* bind(effect) with a closure that panics when it is called
Act_EffectCell_bind_panicking ==
    /\ Callable("EffectCell")
    /\ Len(effects) < MaxEffects
    /\ effects' = EffectCell_bind(effects, Len(effects) + 1)
    /\ panicky' = panicky \cup {Len(effects) + 1}
    /\ Returns(Enter, "live", [NoOp("bind") EXCEPT !.arg = Len(effects) + 1], NoValue)
    /\ compared' = NoOther
    /\ verdict' = ""
    /\ UNCHANGED <<prior_effects, post_effects, passes>>

Act_OrderedEffectCell_bind_panicking ==
    \E ord \in Orders :
        /\ Callable("OrderedEffectCell")
        /\ NextEffect <= MaxEffects
        /\ prior_effects' = OrderedEffectCell_bind_prior(prior_effects, ord, NextEffect)
        /\ post_effects' = OrderedEffectCell_bind_post(post_effects, ord, NextEffect)
        /\ panicky' = panicky \cup {NextEffect}
        /\ Returns(Enter, "live",
                   [NoOp("bind") EXCEPT !.arg = NextEffect, !.ord = ord], NoValue)
        /\ compared' = NoOther
        /\ verdict' = ""
        /\ UNCHANGED <<effects, passes>>

InitFault == Init /\ kind \in {"EffectCell", "OrderedEffectCell"}

NextFault ==
    \/ Act_EffectCell_bind
    \/ Act_EffectCell_bind_panicking
    \/ Act_EffectCell_call
    \/ Act_EffectCell_update
    \/ Act_EffectCell_set
    \/ Act_EffectCell_consume
    \/ Act_OrderedEffectCell_bind
    \/ Act_OrderedEffectCell_bind_panicking
    \/ Act_OrderedEffectCell_call
    \/ Act_OrderedEffectCell_update
    \/ Act_OrderedEffectCell_set
    \/ Act_OrderedEffectCell_consume

SpecFault == InitFault /\ [][NextFault]_vars

\* ================================================================ claims
IsEffect(e) == e.ev = "effect"
EffectEvent(f, v) == [ev |-> "effect", f |-> f, val |-> v]
StoreEvent(v) == [ev |-> "store", f |-> 0, val |-> v]
Bound == Range(effects) \cup Range(prior_effects) \cup Range(post_effects)
After(k) == (k + 1) .. Len(trace)

\* C1: OrderedEffectCell.update(new) hands every Prior effect the value held
\* before the replacement and every Post effect new; every Prior invocation
\* comes before the replacement and every Post invocation after it, also
\* when new equals the old value.
C1_OrderedUpdateOldThenNew ==
    (kind = "OrderedEffectCell" /\ last.op = "update") =>
        /\ data = last.arg
        /\ \E k \in DOMAIN trace :
            /\ trace[k] = StoreEvent(last.arg)
            /\ \A i \in 1 .. (k - 1) :
                /\ IsEffect(trace[i])
                /\ trace[i].f \in Range(prior_effects)
                /\ trace[i].val = pre.data
            /\ \A i \in After(k) :
                /\ IsEffect(trace[i])
                /\ trace[i].f \in Range(post_effects)
                /\ trace[i].val = last.arg
            /\ \A f \in Range(prior_effects) : \E i \in 1 .. (k - 1) : trace[i].f = f
            /\ \A f \in Range(post_effects) : \E i \in After(k) : trace[i].f = f

C1_Witness ==
    /\ kind = "OrderedEffectCell"
    /\ last.op = "update"
    /\ last.arg = pre.data
    /\ prior_effects # <<>>
    /\ post_effects # <<>>

\* C2: EffectCell.update(new) replaces the value first and then hands new to
\* every registered effect; no effect it invokes sees the value stored before.
C2_UpdateStoresThenCalls ==
    (kind = "EffectCell" /\ last.op = "update") =>
        /\ data = last.arg
        /\ trace # <<>>
        /\ trace[1] = StoreEvent(last.arg)
        /\ \A i \in After(1) : IsEffect(trace[i]) /\ trace[i].val = last.arg
        /\ \A f \in Range(effects) : \E i \in After(1) : trace[i].f = f

C2_Witness ==
    /\ kind = "EffectCell"
    /\ last.op = "update"
    /\ last.arg # pre.data
    /\ Len(effects) >= 2

\* The indices of the effects a method call invoked, in the order it invoked them.
Invoked == [i \in DOMAIN SelectSeq(trace, IsEffect) |-> SelectSeq(trace, IsEffect)[i].f]

\* C3: every completed pass over an EffectCell's effects invokes each bound
\* effect exactly once, in the order they were bound: effects that log their
\* bind index log <<1, ..., N>> per pass, whatever was done in between.
C3_CallInBindOrder ==
    (/\ kind = "EffectCell"
     /\ last.op \in {"call", "consume", "update", "update_lambda", "op_assign"}
     /\ status # "panicked") =>
        /\ Invoked = [i \in 1 .. Len(effects) |-> i]
        /\ \A f \in EffectId :
            calls[f] = pre.calls[f] + (IF f <= Len(effects) THEN 1 ELSE 0)

C3_Witness ==
    /\ kind = "EffectCell"
    /\ last.op = "call"
    /\ Len(effects) >= 2
    /\ Len(trace) = Len(effects)

\* C4: set and set_lambda invoke no effect, on any cell; the number of times
\* an effect has run is the number of effect passes made over its registry
\* since it was bound, however many silent writes came in between.
C4_SilentWrites ==
    /\ last.op \in {"set", "set_lambda"} =>
        /\ calls = pre.calls
        /\ \A i \in DOMAIN trace : ~IsEffect(trace[i])
    /\ \A f \in EffectId : calls[f] = passes[f]

C4_Witness ==
    /\ last.op = "set"
    /\ data # pre.data
    /\ \E f \in Bound : calls[f] > 0

\* The value the closure |data| *data fop= arg leaves in place of v.
Mutated(v, fop, arg) == BinOp(fop, v, arg)

\* C5: set_lambda(m) leaves the value update_lambda(m) would leave, m applied
\* in place to the stored value; it only runs no effect.
C5_SetLambdaMutates ==
    (/\ kind \in {"EffectCell", "OrderedEffectCell"}
     /\ last.op = "set_lambda"
     /\ Mutated(pre.data, last.fop, last.arg) # Panic) =>
        data = Mutated(pre.data, last.fop, last.arg)

\* The events of one pass over registry, each effect handed v.
Pass(registry, v) == [i \in DOMAIN registry |-> EffectEvent(registry[i], v)]

\* C6: consume() invokes each registered effect exactly once with the current
\* value (OrderedEffectCell: every Prior effect, then every Post effect), and
\* the cell is gone: no method can be called on it and no effect runs again.
C6_ConsumeRunsOnce ==
    (kind \in {"EffectCell", "OrderedEffectCell"} /\ status = "consumed") =>
        /\ last.op = "consume"
        /\ data = pre.data
        /\ trace = IF kind = "EffectCell" THEN Pass(effects, data)
                   ELSE Pass(prior_effects, data) \o Pass(post_effects, data)
        /\ \A f \in EffectId :
            calls[f] = pre.calls[f] + (IF f \in Bound THEN 1 ELSE 0)
        /\ ~ENABLED Next

C6_Witness ==
    /\ kind = "OrderedEffectCell"
    /\ status = "consumed"
    /\ prior_effects # <<>>
    /\ post_effects # <<>>

\* C7: dropping a cell runs no effect; the counter of an effect bound to a
\* cell that is only created, bound and dropped is still 0.
C7_NoEffectOnDrop ==
    last.op = "drop" =>
        /\ status = "dropped"
        /\ trace = <<>>
        /\ calls = pre.calls
        /\ (\A f \in EffectId : passes[f] = 0) => (\A f \in EffectId : calls[f] = 0)

C7_Witness ==
    /\ last.op = "drop"
    /\ kind = "EffectCell"
    /\ Len(effects) >= 2
    /\ \A f \in EffectId : calls[f] = 0

\* The state the last method call started from.
PreEnter == [data |-> pre.data, calls |-> pre.calls, trace |-> <<>>, fault |-> FALSE]

\* C8: a compound operator applied to an EffectCell leaves the value and
\* makes the effect invocations (same effects, same order, same values seen)
\* that update_lambda leaves and makes with the closure |data| *data op= other.
C8_CompoundOpIsUpdateLambda ==
    (kind = "EffectCell" /\ last.op = "op_assign") =>
        LET ref == EffectCell_update_lambda(PreEnter, [fop |-> last.fop, arg |-> last.arg])
        IN /\ data = ref.data
           /\ trace = ref.trace
           /\ calls = ref.calls
           /\ (status = "panicked") = ref.fault

C8_Witness ==
    /\ kind = "EffectCell"
    /\ last.op = "op_assign"
    /\ data # pre.data
    /\ Len(effects) >= 2
    /\ Len(trace) = 3

IsStore(e) == e.ev = "store"
Increasing(seq) == \A i, j \in DOMAIN seq : i < j => seq[i] < seq[j]

\* C11: a compound operator applied to an OrderedEffectCell hands every Prior
\* effect the value before the operator, applies the operator, then hands
\* every Post effect the result; value and invocations are those of
\* update_lambda with the closure |data| *data op= other.
C11_OrderedCompoundOpIsUpdateLambda ==
    (kind = "OrderedEffectCell" /\ last.op = "op_assign") =>
        LET m == Mutated(pre.data, last.fop, last.arg)
            ref == OrderedEffectCell_update_lambda(
                       PreEnter, [fop |-> last.fop, arg |-> last.arg])
        IN /\ m # Panic =>
                 /\ data = m
                 /\ trace = Pass(prior_effects, pre.data) \o <<StoreEvent(m)>>
                                \o Pass(post_effects, m)
           /\ m = Panic => trace = Pass(prior_effects, pre.data)
           /\ data = ref.data
           /\ trace = ref.trace
           /\ calls = ref.calls
           /\ (status = "panicked") = ref.fault

C11_Witness ==
    /\ kind = "OrderedEffectCell"
    /\ last.op = "op_assign"
    /\ data # pre.data
    /\ prior_effects # <<>>
    /\ post_effects # <<>>

\* C12: OrderedEffectCell.update_lambda hands every Prior effect the unmutated
\* value, then applies the closure in place exactly once, then hands every
\* Post effect the mutated value; the closure runs after the last Prior effect
\* and before the first Post effect.
C12_OrderedUpdateLambda ==
    (kind = "OrderedEffectCell" /\ last.op = "update_lambda") =>
        LET m == Mutated(pre.data, last.fop, last.arg)
            np == Len(prior_effects)
        IN /\ Len(trace) >= np
           /\ \A i \in 1 .. np : trace[i] = EffectEvent(prior_effects[i], pre.data)
           /\ m # Panic =>
                 /\ status = "live"
                 /\ data = m
                 /\ Len(SelectSeq(trace, IsStore)) = 1
                 /\ Len(trace) = np + 1 + Len(post_effects)
                 /\ trace[np + 1] = StoreEvent(m)
                 /\ \A i \in DOMAIN post_effects :
                        trace[np + 1 + i] = EffectEvent(post_effects[i], m)
           /\ m = Panic =>
                 /\ status = "panicked"
                 /\ data = pre.data
                 /\ Len(trace) = np

C12_Witness ==
    /\ kind = "OrderedEffectCell"
    /\ last.op = "update_lambda"
    /\ data # pre.data
    /\ prior_effects # <<>>
    /\ post_effects # <<>>

\* C13: OrderedEffectCell.bind(order, e) appends e to the registry order
\* names and leaves the other registry as it was; call(order) invokes the
\* effects of the named registry only, in the order they were bound.
C13_BindAndCallByOrder ==
    kind = "OrderedEffectCell" =>
        /\ Increasing(prior_effects)
        /\ Increasing(post_effects)
        /\ (last.op = "bind" /\ last.ord = "Prior") =>
               /\ prior_effects = Append(pre.prior_effects, last.arg)
               /\ post_effects = pre.post_effects
        /\ (last.op = "bind" /\ last.ord = "Post") =>
               /\ post_effects = Append(pre.post_effects, last.arg)
               /\ prior_effects = pre.prior_effects
        /\ (last.op = "call" /\ last.ord = "Prior") =>
               /\ Invoked = prior_effects
               /\ \A f \in Range(post_effects) : calls[f] = pre.calls[f]
        /\ (last.op = "call" /\ last.ord = "Post") =>
               /\ Invoked = post_effects
               /\ \A f \in Range(prior_effects) : calls[f] = pre.calls[f]

C13_Witness ==
    /\ kind = "OrderedEffectCell"
    /\ last.op = "call"
    /\ last.ord = "Post"
    /\ prior_effects # <<>>
    /\ post_effects # <<>>
    /\ Len(trace) = Len(post_effects)

\* C14: into_inner() returns the value stored when it is called, the one the
\* most recent write left, silent or not; it runs no effect and the cell is
\* gone afterwards.
C14_IntoInnerReturnsStored ==
    /\ last.op \in {"set", "update"} => data = last.arg
    /\ status = "unwrapped" =>
        /\ last.op = "into_inner"
        /\ returned = pre.data
        /\ pre.set # NoValue => returned = pre.set
        /\ trace = <<>>
        /\ calls = pre.calls
        /\ ~ENABLED Next

C14_Witness ==
    /\ kind = "EffectCell"
    /\ status = "unwrapped"
    /\ effects # <<>>
    /\ pre.set # NoValue
    /\ returned = pre.set
    /\ returned > MaxInit

\* The value stored when event i of the last call happened.
RECURSIVE ValueAt(_)
ValueAt(i) ==
    IF i = 1 THEN pre.data
    ELSE IF IsStore(trace[i - 1]) THEN trace[i - 1].val
    ELSE ValueAt(i - 1)

\* C17: running effects never changes the value: call() and consume() leave
\* it as it was, every effect of any method is handed the value the last
\* store left, and the value after a method is the one its last store left.
C17_EffectsLeaveValue ==
    /\ last.op \in {"call", "consume"} => data = pre.data
    /\ \A i \in DOMAIN trace : IsEffect(trace[i]) => trace[i].val = ValueAt(i)
    /\ data = ValueAt(Len(trace) + 1)
    /\ \A f \in EffectId : calls[f] >= pre.calls[f]

C17_Witness ==
    /\ kind = "EffectCell"
    /\ last.op = "call"
    /\ Len(effects) >= 2
    /\ Len(trace) = Len(effects)
    /\ data > 0

\* C18: a silent write is seen by the next method that runs effects: after
\* set(v), call() and consume() hand v to every effect, and update(w) on an
\* OrderedEffectCell hands v to every Prior effect and w to every Post effect.
C18_SilentWriteIsSeen ==
    /\ last.op = "set" => data = last.arg
    /\ (pre.set # NoValue /\ last.op \in {"call", "consume"}) =>
           \A i \in DOMAIN trace : IsEffect(trace[i]) /\ trace[i].val = pre.set
    /\ (pre.set # NoValue /\ kind = "OrderedEffectCell" /\ last.op = "update") =>
           \A i \in DOMAIN trace :
               /\ (IsEffect(trace[i]) /\ trace[i].f \in Range(prior_effects)) =>
                      trace[i].val = pre.set
               /\ (IsEffect(trace[i]) /\ trace[i].f \in Range(post_effects)) =>
                      trace[i].val = last.arg

C18_Witness ==
    /\ kind = "OrderedEffectCell"
    /\ last.op = "update"
    /\ pre.set > MaxInit
    /\ pre.set # last.arg
    /\ prior_effects # <<>>
    /\ Len(trace) = 2

\* C19: bind runs no effect and leaves the value as it was; an effect has run
\* once for every effect pass made over its registry since it was bound and
\* never for a call made before, and the effects bound earlier keep running.
C19_BindRunsNothing ==
    /\ last.op = "bind" =>
        /\ status = "live"
        /\ data = pre.data
        /\ calls = pre.calls
        /\ trace = <<>>
        /\ calls[last.arg] = 0
        /\ kind = "EffectCell" => effects = Append(pre.effects, last.arg)
    /\ \A f \in EffectId : calls[f] = passes[f]
    /\ \A f \in EffectId \ Bound : calls[f] = 0
    /\ \A f, g \in Range(effects) : f < g => calls[f] >= calls[g]

C19_Witness ==
    /\ kind = "EffectCell"
    /\ last.op = "bind"
    /\ last.arg = 2
    /\ calls[1] = 1
    /\ calls[2] = 0

CmpOps == {"eq", "eq_value", "partial_cmp", "partial_cmp_value"}

\* C15: a cell compares equal to another cell, or to a bare value, exactly
\* when the stored value equals the other's, whatever effects either cell
\* has bound; an ordering comparison returns the ordering of the stored
\* values; a comparison invokes no effect and writes nothing.
C15_ComparisonDelegates ==
    (last.op \in CmpOps) =>
        /\ last.op \in {"eq", "eq_value"} =>
            /\ verdict \in {"true", "false"}
            /\ (verdict = "true") <=> (data = compared.data)
        /\ last.op \in {"partial_cmp", "partial_cmp_value"} =>
            /\ verdict \in {"Less", "Equal", "Greater"}
            /\ (verdict = "Less") <=> (data < compared.data)
            /\ (verdict = "Equal") <=> (data = compared.data)
            /\ (verdict = "Greater") <=> (data > compared.data)
        /\ compared.cell <=> last.op \in {"eq", "partial_cmp"}
        /\ trace = <<>>
        /\ calls = pre.calls
        /\ data = pre.data
        /\ status = "live"

C15_Witness ==
    /\ kind = "EffectCell"
    /\ last.op = "eq"
    /\ verdict = "true"
    /\ Len(effects) = 1
    /\ compared.effects = <<>>
    /\ calls[1] > 0

PanicEvent(f, v) == [ev |-> "panic", f |-> f, val |-> v]
FirstPanicky(registry) ==
    IF \E i \in DOMAIN registry : registry[i] \in panicky
    THEN CHOOSE i \in DOMAIN registry :
             /\ registry[i] \in panicky
             /\ \A j \in 1 .. (i - 1) : registry[j] \notin panicky
    ELSE 0
Upto(registry, i) == SubSeq(registry, 1, i - 1)

\* C16: when a Prior effect panics in OrderedEffectCell.update(new) the call
\* does not return normally, the stored value is the old one, and neither a
\* later Prior effect nor a Post effect nor the replacement has happened;
\* when an effect panics in EffectCell.update(new) the stored value is new
\* and no later effect has run; the earlier effects ran once, the panicking
\* closure was entered once, and nothing follows the panic.
C16_FaultPropagates ==
    /\ (kind = "OrderedEffectCell" /\ last.op = "update") =>
        LET p == FirstPanicky(prior_effects)
            q == FirstPanicky(post_effects) IN
        /\ p > 0 =>
            /\ status = "panicked"
            /\ data = pre.data
            /\ trace = Pass(Upto(prior_effects, p), pre.data)
                         \o <<PanicEvent(prior_effects[p], pre.data)>>
            /\ \A f \in Range(post_effects) : calls[f] = pre.calls[f]
            /\ \A i \in p .. Len(prior_effects) :
                   calls[prior_effects[i]] = pre.calls[prior_effects[i]]
        /\ (p = 0 /\ q > 0) =>
            /\ status = "panicked"
            /\ data = last.arg
            /\ trace = Pass(prior_effects, pre.data) \o <<StoreEvent(last.arg)>>
                         \o Pass(Upto(post_effects, q), last.arg)
                         \o <<PanicEvent(post_effects[q], last.arg)>>
        /\ (p = 0 /\ q = 0) => status = "live"
    /\ (kind = "EffectCell" /\ last.op = "update") =>
        LET p == FirstPanicky(effects) IN
        /\ p > 0 =>
            /\ status = "panicked"
            /\ data = last.arg
            /\ trace = <<StoreEvent(last.arg)>> \o Pass(Upto(effects, p), last.arg)
                         \o <<PanicEvent(effects[p], last.arg)>>
            /\ \A i \in p .. Len(effects) : calls[effects[i]] = pre.calls[effects[i]]
        /\ p = 0 => status = "live"
    /\ status = "panicked" => ~ENABLED NextFault

C16_Witness ==
    /\ kind = "OrderedEffectCell"
    /\ last.op = "update"
    /\ status = "panicked"
    /\ prior_effects # <<>>
    /\ prior_effects[1] \in panicky
    /\ Len(prior_effects) + Len(post_effects) = 2
    /\ data = pre.data
    /\ data # last.arg

====
